---- MODULE Spec2Model ----
(***************************************************************************)
(* A model of the time_series crate (src/lib.rs): the TimeSeries<T>        *)
(* container, its transforms, the Variation trait and the elementwise      *)
(* arithmetic operators.                                                   *)
(*                                                                         *)
(* The element type T is instantiated as f64, the type the crate's own     *)
(* documentation uses (lib.rs lines 11-13, 28-31, 38-42).  An f64 is       *)
(* written as a pair <<n, d>>: a reduced fraction n/d with d > 0 for a     *)
(* finite value, <<1, 0>> and <<-1, 0>> for the two infinities and         *)
(* <<0, 0>> for NaN.  Every value a series is built from is a small        *)
(* integer, so +, - and * are exact, and a quotient of two such values is  *)
(* the correctly rounded f64 of the fraction that names it.                *)
(* Positive and negative zero are one value, as they are under f64's ==.   *)
(*                                                                         *)
(* Indices are 0-based as in the source; TLA+ sequences are 1-based, so    *)
(* the element at index i of a Vec v is v[i + 1].                          *)
(***************************************************************************)
EXTENDS Integers, Sequences, FiniteSets

VARIABLES ts, op, arg, pre, ret, rs, iter

vars == <<ts, op, arg, pre, ret, rs, iter>>

\* ------------------------------------------------------------------ bounds
MaxLen == 3
MaxVal == 2
MaxErr == 2

\* ------------------------------------------------------- element type (f64)
Abs(n) == IF n < 0 THEN 0 - n ELSE n

Sign(n) == IF n < 0 THEN 0 - 1 ELSE IF n > 0 THEN 1 ELSE 0

RECURSIVE Gcd(_, _)
Gcd(a, b) == IF b = 0 THEN a ELSE Gcd(b, a % b)

\* the f64 named by the fraction n/d, d # 0
Norm(n, d) ==
  LET g == Gcd(Abs(n), Abs(d))
      s == Sign(d)
  IN  <<(s * n) \div g, (s * d) \div g>>

F(k) == <<k, 1>>

NaN == <<0, 0>>

Inf(s) == <<s, 0>>

IsNaN(x) == x = NaN

IsFinite(x) == x[2] # 0

\* &a + &b on f64
eAdd(x, y) ==
  IF IsNaN(x) \/ IsNaN(y) THEN NaN
  ELSE IF IsFinite(x) /\ IsFinite(y)
       THEN Norm(x[1] * y[2] + y[1] * x[2], x[2] * y[2])
  ELSE IF IsFinite(y) THEN x
  ELSE IF IsFinite(x) THEN y
  ELSE IF x = y THEN x ELSE NaN

\* &a - &b on f64
eSub(x, y) ==
  IF IsNaN(x) \/ IsNaN(y) THEN NaN
  ELSE IF IsFinite(x) /\ IsFinite(y)
       THEN Norm(x[1] * y[2] - y[1] * x[2], x[2] * y[2])
  ELSE IF IsFinite(y) THEN x
  ELSE IF IsFinite(x) THEN Inf(0 - y[1])
  ELSE IF x = y THEN NaN ELSE x

\* &a * &b on f64
eMul(x, y) ==
  IF IsNaN(x) \/ IsNaN(y) THEN NaN
  ELSE IF IsFinite(x) /\ IsFinite(y)
       THEN Norm(x[1] * y[1], x[2] * y[2])
  ELSE IF x[1] = 0 \/ y[1] = 0 THEN NaN
  ELSE Inf(Sign(x[1]) * Sign(y[1]))

\* &a / &b on f64: a zero divisor gives an infinity or NaN, never a fault
eDiv(x, y) ==
  IF IsNaN(x) \/ IsNaN(y) THEN NaN
  ELSE IF IsFinite(x) /\ IsFinite(y)
       THEN IF y[1] = 0
            THEN (IF x[1] = 0 THEN NaN ELSE Inf(Sign(x[1])))
            ELSE Norm(x[1] * y[2], x[2] * y[1])
  ELSE IF IsFinite(y) THEN Inf(Sign(x[1]) * (IF y[1] < 0 THEN 0 - 1 ELSE 1))
  ELSE IF IsFinite(x) THEN F(0)
  ELSE NaN

\* the values pushed into a series
Elem == {F(k) : k \in 0..MaxVal}

\* ------------------------------------------------------------ return values
None == [kind |-> "None"]

Some(x) == [kind |-> "Some", val |-> x]

Unit == [kind |-> "unit"]

\* an owned TimeSeries returned by value
Series(s) == [kind |-> "TimeSeries", val |-> s]

\* a panic unwinding out of the call
Panic(m) == [kind |-> "panic", msg |-> m]

IsPanic(r) == r.kind = "panic"

\* --------------------------------------------------------------- TimeSeries
new == <<>>

len(s) == Len(s)

is_empty(s) == Len(s) = 0

push(s, value) == Append(s, value)

\* Vec::remove(index): the element, and the vector with the rest shifted left
VecRemove(v, index) ==
  [elem |-> v[index + 1],
   vec  |-> [i \in 1..(Len(v) - 1) |-> IF i <= index THEN v[i] ELSE v[i + 1]]]

\* a pop that takes the last element, as Vec::pop does
pop_back(s) ==
  IF is_empty(s)
  THEN [self |-> s, out |-> None]
  ELSE [self |-> SubSeq(s, 1, Len(s) - 1), out |-> Some(s[Len(s)])]

\* pop: the new contents and the returned Option
pop(s) ==
  IF is_empty(s)
  THEN [self |-> s, out |-> None]
  ELSE LET r == VecRemove(s, 0) IN [self |-> r.vec, out |-> Some(r.elem)]

\* a last that reads the front of the vector
last_as_first(s) == IF Len(s) = 0 THEN None ELSE Some(s[1])

first(s) == IF Len(s) = 0 THEN None ELSE Some(s[1])

last(s) == IF Len(s) = 0 THEN None ELSE Some(s[Len(s)])

clear(s) == <<>>

get(s, index) == IF index < Len(s) THEN Some(s[index + 1]) ELSE None

append(s, other) == s \o other

\* a filter that keeps what the predicate rejects
RECURSIVE filter_negated(_, _)
filter_negated(s, f) ==
  IF s = <<>> THEN <<>>
  ELSE IF Head(s) \notin f THEN <<Head(s)>> \o filter_negated(Tail(s), f)
  ELSE filter_negated(Tail(s), f)

\* filter: self.0.iter().filter(|&item| f(item)).cloned().collect(); the
\* predicate f is given as the set of elements it accepts
RECURSIVE filter(_, _)
filter(s, f) ==
  IF s = <<>> THEN <<>>
  ELSE IF Head(s) \in f THEN <<Head(s)>> \o filter(Tail(s), f)
  ELSE filter(Tail(s), f)

Swap(v, i, j) == [v EXCEPT ![i + 1] = v[j + 1], ![j + 1] = v[i + 1]]

\* a reversal whose loop runs over the whole length, swapping everything back
RECURSIVE VecReverse_full(_, _)
VecReverse_full(v, i) ==
  IF i >= Len(v) THEN v
  ELSE VecReverse_full(Swap(v, i, Len(v) - 1 - i), i + 1)

\* Vec::reverse, in place: swap index i with its mirror up to the middle
RECURSIVE VecReverse(_, _)
VecReverse(v, i) ==
  IF i >= Len(v) \div 2 THEN v
  ELSE VecReverse(Swap(v, i, Len(v) - 1 - i), i + 1)

\* reverse: clone, reverse the clone, wrap it
reverse(s) == LET reversed == s IN VecReverse(reversed, 0)

\* the two panics of indexing a slice by a range
SliceIndexOrderFail == Panic("slice index starts after its end")

SliceEndIndexLenFail == Panic("range end index out of range for slice")

\* a slice that takes the closed range [start, end]
slice_inclusive(s, start, end) ==
  IF start > end THEN SliceIndexOrderFail
  ELSE IF end >= Len(s) THEN SliceEndIndexLenFail
  ELSE Series(SubSeq(s, start + 1, end + 1))

\* a slice that clamps its bounds to the length instead of panicking
slice_clamped(s, start, end) ==
  LET e == IF end > Len(s) THEN Len(s) ELSE IF end < 0 THEN 0 ELSE end
      b == IF start > e THEN e ELSE start
  IN  Series(SubSeq(s, b + 1, e))

\* slice: self.0[start..end].to_vec(); the range index checks the order of
\* the bounds first and the end against the length second
slice(s, start, end) ==
  IF start > end THEN SliceIndexOrderFail
  ELSE IF end > Len(s) THEN SliceEndIndexLenFail
  ELSE Series(SubSeq(s, start + 1, end))

\* a zip that runs to the longer length, padding the shorter side with 0.0
RECURSIVE zip_longest(_, _)
zip_longest(a, b) ==
  IF a = <<>> /\ b = <<>> THEN <<>>
  ELSE <<<<IF a = <<>> THEN F(0) ELSE Head(a), IF b = <<>> THEN F(0) ELSE Head(b)>>>>
       \o zip_longest(IF a = <<>> THEN a ELSE Tail(a), IF b = <<>> THEN b ELSE Tail(b))

\* Iterator::zip: a pair is produced while both iterators yield an element
RECURSIVE zip(_, _)
zip(a, b) ==
  IF a = <<>> \/ b = <<>> THEN <<>>
  ELSE <<<<Head(a), Head(b)>>>> \o zip(Tail(a), Tail(b))

\* self + other
add(self, other) ==
  LET z == zip(self, other) IN [i \in 1..Len(z) |-> eAdd(z[i][1], z[i][2])]

\* self - other
sub(self, other) ==
  LET z == zip(self, other) IN [i \in 1..Len(z) |-> eSub(z[i][1], z[i][2])]

\* self * other
mul(self, other) ==
  LET z == zip(self, other) IN [i \in 1..Len(z) |-> eMul(z[i][1], z[i][2])]

\* self / other
div(self, other) ==
  LET z == zip(self, other) IN [i \in 1..Len(z) |-> eDiv(z[i][1], z[i][2])]

\* a diff with the operands of the subtraction exchanged
diff_swapped(s, offset) ==
  LET length == len(s)
      l == slice(s, offset, length)
  IN  IF IsPanic(l) THEN l
      ELSE LET r == slice(s, 0, length - offset)
           IN  IF IsPanic(r) THEN r ELSE Series(sub(r.val, l.val))

\* Variation::diff.  The left operand is evaluated first, so length - offset
\* (a usize subtraction) is reached only when offset <= length.
diff(s, offset) ==
  LET length == len(s)
      l == slice(s, offset, length)
  IN  IF IsPanic(l) THEN l
      ELSE LET r == slice(s, 0, length - offset)
           IN  IF IsPanic(r) THEN r ELSE Series(sub(l.val, r.val))

\* a pct_change that divides by the later element instead of the lagged one
pct_change_by_lead(s, offset) ==
  LET length == len(s)
      l == slice(s, offset, length)
  IN  IF IsPanic(l) THEN l
      ELSE LET r == slice(s, 0, length - offset)
           IN  IF IsPanic(r) THEN r
               ELSE Series(div(sub(l.val, r.val), l.val))

\* Variation::pct_change: (l - r) / r2, operands evaluated left to right
pct_change(s, offset) ==
  LET length == len(s)
      l == slice(s, offset, length)
  IN  IF IsPanic(l) THEN l
      ELSE LET r == slice(s, 0, length - offset)
           IN  IF IsPanic(r) THEN r
               ELSE LET r2 == slice(s, 0, length - offset)
                    IN  IF IsPanic(r2) THEN r2
                        ELSE Series(div(sub(l.val, r.val), r2.val))

\* ------------------------------------------------ TimeSeries<Result<T, E>>
Ok(v) == [kind |-> "Ok", val |-> v]

Err(e) == [kind |-> "Err", err |-> e]

\* a loop that remembers an error and goes on, returning the last one seen
RECURSIVE unwrap_loop_last_err(_, _)
unwrap_loop_last_err(it, vec) ==
  IF it = <<>> THEN [out |-> vec, rest |-> <<>>]
  ELSE LET item == Head(it)
       IN  IF item.kind = "Ok"
           THEN unwrap_loop_last_err(Tail(it),
                  IF vec.kind = "Ok" THEN Ok(Append(vec.val, item.val)) ELSE vec)
           ELSE unwrap_loop_last_err(Tail(it), Err(item.err))

\* a scan that goes on after an error
unwrap_last_err(self) == unwrap_loop_last_err(self, Ok(<<>>))

\* the for loop of unwrap over self.0.into_iter(): the value returned and
\* what the iterator still holds when the function returns
RECURSIVE unwrap_loop(_, _)
unwrap_loop(it, vec) ==
  IF it = <<>> THEN [out |-> Ok(vec), rest |-> <<>>]
  ELSE LET item == Head(it)
       IN  IF item.kind = "Ok"
           THEN unwrap_loop(Tail(it), Append(vec, item.val))
           ELSE [out |-> Err(item.err), rest |-> Tail(it)]

unwrap(self) == unwrap_loop(self, <<>>)

\* ------------------------------------------------------------------ inputs
SeqsUpTo(S, n) == UNION {[1..k -> S] : k \in 0..n}

Series0 == SeqsUpTo(Elem, MaxLen)

Errors == 1..MaxErr

Results == {Ok(v) : v \in Elem} \cup {Err(e) : e \in Errors}

Indices == 0..(MaxLen + 1)

\* ----------------------------------------------------------------- actions
Init ==
  /\ ts = new
  /\ op = "new"
  /\ arg = <<>>
  /\ pre = <<>>
  /\ ret = Unit
  /\ rs = <<>>
  /\ iter = <<>>

Push ==
  \E value \in Elem :
    /\ Len(ts) < MaxLen
    /\ ts' = push(ts, value)
    /\ op' = "push" /\ arg' = <<value>> /\ pre' = ts /\ ret' = Unit
    /\ UNCHANGED <<rs, iter>>

Pop ==
  /\ ts' = pop(ts).self
  /\ op' = "pop" /\ arg' = <<>> /\ pre' = ts /\ ret' = pop(ts).out
  /\ UNCHANGED <<rs, iter>>

Clear ==
  /\ ts' = clear(ts)
  /\ op' = "clear" /\ arg' = <<>> /\ pre' = ts /\ ret' = Unit
  /\ UNCHANGED <<rs, iter>>

AppendOther ==
  \E other \in Series0 :
    /\ Len(ts) + Len(other) <= MaxLen
    /\ ts' = append(ts, other)
    /\ op' = "append" /\ arg' = other /\ pre' = ts /\ ret' = Unit
    /\ UNCHANGED <<rs, iter>>

First ==
  /\ op' = "first" /\ arg' = <<>> /\ pre' = ts /\ ret' = first(ts)
  /\ UNCHANGED <<ts, rs, iter>>

Last ==
  /\ op' = "last" /\ arg' = <<>> /\ pre' = ts /\ ret' = last(ts)
  /\ UNCHANGED <<ts, rs, iter>>

Get ==
  \E index \in Indices :
    /\ op' = "get" /\ arg' = <<index>> /\ pre' = ts /\ ret' = get(ts, index)
    /\ UNCHANGED <<ts, rs, iter>>

Filter ==
  \E f \in SUBSET Elem :
    /\ op = "new"
    /\ op' = "filter" /\ arg' = f /\ pre' = ts /\ ret' = Series(filter(ts, f))
    /\ UNCHANGED <<ts, rs, iter>>

Reverse ==
  /\ op = "new"
  /\ op' = "reverse" /\ arg' = <<>> /\ pre' = ts /\ ret' = Series(reverse(ts))
  /\ UNCHANGED <<ts, rs, iter>>

Slice ==
  \E start \in Indices, end \in Indices :
    /\ op = "new"
    /\ op' = "slice" /\ arg' = <<start, end>> /\ pre' = ts
    /\ ret' = slice(ts, start, end)
    /\ UNCHANGED <<ts, rs, iter>>

Diff ==
  \E offset \in Indices :
    /\ op = "new"
    /\ op' = "diff" /\ arg' = <<offset>> /\ pre' = ts /\ ret' = diff(ts, offset)
    /\ UNCHANGED <<ts, rs, iter>>

PctChange ==
  \E offset \in Indices :
    /\ op = "new"
    /\ op' = "pct_change" /\ arg' = <<offset>> /\ pre' = ts
    /\ ret' = pct_change(ts, offset)
    /\ UNCHANGED <<ts, rs, iter>>

Add ==
  \E other \in Series0 :
    /\ op = "new"
    /\ op' = "add" /\ arg' = other /\ pre' = ts /\ ret' = Series(add(ts, other))
    /\ UNCHANGED <<ts, rs, iter>>

Sub ==
  \E other \in Series0 :
    /\ op = "new"
    /\ op' = "sub" /\ arg' = other /\ pre' = ts /\ ret' = Series(sub(ts, other))
    /\ UNCHANGED <<ts, rs, iter>>

Mul ==
  \E other \in Series0 :
    /\ op = "new"
    /\ op' = "mul" /\ arg' = other /\ pre' = ts /\ ret' = Series(mul(ts, other))
    /\ UNCHANGED <<ts, rs, iter>>

Div ==
  \E other \in Series0 :
    /\ op = "new"
    /\ op' = "div" /\ arg' = other /\ pre' = ts /\ ret' = Series(div(ts, other))
    /\ UNCHANGED <<ts, rs, iter>>

\* the container: a series built and queried by its methods
Next ==
  \/ Push \/ Pop \/ Clear \/ AppendOther
  \/ First \/ Last \/ Get

Spec == Init /\ [][Next]_vars

\* the transforms, the Variation trait and the arithmetic operators: each
\* behaviour takes one series and applies one of them to it
InitTransform ==
  /\ ts \in Series0
  /\ op = "new"
  /\ arg = <<>>
  /\ pre = <<>>
  /\ ret = Unit
  /\ rs = <<>>
  /\ iter = <<>>

NextTransform ==
  \/ Filter \/ Reverse \/ Slice
  \/ Diff \/ PctChange
  \/ Add \/ Sub \/ Mul \/ Div

SpecTransform == InitTransform /\ [][NextTransform]_vars

\* a series of fallible elements, and unwrap applied to it once (it takes
\* self by value)
InitUnwrap ==
  /\ rs \in SeqsUpTo(Results, MaxLen)
  /\ op = "new"
  /\ arg = <<>>
  /\ pre = <<>>
  /\ ret = Unit
  /\ ts = new
  /\ iter = <<>>

Unwrap ==
  /\ op = "new"
  /\ op' = "unwrap"
  /\ ret' = unwrap(rs).out
  /\ iter' = unwrap(rs).rest
  /\ UNCHANGED <<ts, arg, pre, rs>>

NextUnwrap == Unwrap

SpecUnwrap == InitUnwrap /\ [][NextUnwrap]_vars

\* ------------------------------------------------------------------ claims
Min(a, b) == IF a <= b THEN a ELSE b

ArithOps == {"add", "sub", "mul", "div"}

ElemOp(o, x, y) ==
  CASE o = "add" -> eAdd(x, y)
    [] o = "sub" -> eSub(x, y)
    [] o = "mul" -> eMul(x, y)
    [] o = "div" -> eDiv(x, y)

IsSliceFault(r) == r \in {SliceIndexOrderFail, SliceEndIndexLenFail}

\* C1: a op b, for op one of + - * /, is a series of length
\* min(len(a), len(b)) whose element i is a[i] op b[i]; the tail of the longer
\* operand is dropped and the call never panics.
C1_Elementwise ==
  op \in ArithOps =>
    /\ ret.kind = "TimeSeries"
    /\ Len(ret.val) = Min(Len(pre), Len(arg))
    /\ \A i \in 1..Min(Len(pre), Len(arg)) : ret.val[i] = ElemOp(op, pre[i], arg[i])

\* a one-element series divided by a longer one whose dropped tail holds 0.0
C1_Witness ==
  /\ op = "div"
  /\ Len(pre) = 1 /\ Len(arg) = 3
  /\ arg[1] = F(2) /\ arg[3] = F(0)
  /\ ret = Series(<<eDiv(pre[1], F(2))>>)

\* what repeated pops return until the first None
RECURSIVE Drain(_)
Drain(s) ==
  LET r == pop(s)
  IN  IF r.out.kind = "None" THEN <<>> ELSE <<r.out.val>> \o Drain(r.self)

\* C2: pop on a non-empty series returns the element at position 0 and leaves
\* the rest in order, one position down, the length one less; on an empty
\* series it returns None and changes nothing.  push and append add at the
\* back, so popping a series until None yields its elements in the order
\* they were put in.
C2_PopFront ==
  /\ op = "pop" =>
       IF pre = <<>>
       THEN ret = None /\ ts = pre
       ELSE /\ ret = Some(pre[1])
            /\ Len(ts) = Len(pre) - 1
            /\ \A i \in 1..Len(ts) : ts[i] = pre[i + 1]
  /\ op \in {"push", "append"} => ts = pre \o arg
  /\ Drain(ts) = ts
  /\ pop(<<>>).out = None

\* a pop of a full series whose two ends differ
C2_Witness ==
  /\ op = "pop"
  /\ Len(pre) = 3 /\ pre[1] # pre[3]
  /\ ret = Some(pre[1])
  /\ ts = <<pre[2], pre[3]>>

\* C3: for offset <= n, diff(offset) is a series of length n - offset whose
\* element i is s[offset + i] - s[i], and s is unchanged.
C3_Diff ==
  (op = "diff" /\ arg[1] <= Len(pre)) =>
    /\ ret.kind = "TimeSeries"
    /\ Len(ret.val) = Len(pre) - arg[1]
    /\ \A i \in 1..(Len(pre) - arg[1]) : ret.val[i] = eSub(pre[arg[1] + i], pre[i])
    /\ ts = pre

\* diff(1) of [1, 2, 0] is [1, -2]
C3_Witness ==
  /\ op = "diff"
  /\ arg = <<1>>
  /\ pre = <<F(1), F(2), F(0)>>
  /\ ret = Series(<<F(1), F(0 - 2)>>)

\* C4: for offset <= n, pct_change(offset) is a series of length n - offset
\* whose element i is (s[offset + i] - s[i]) / s[i]: the subtraction first,
\* then f64's division by the lagged element.
C4_PctChange ==
  (op = "pct_change" /\ arg[1] <= Len(pre)) =>
    /\ ret.kind = "TimeSeries"
    /\ Len(ret.val) = Len(pre) - arg[1]
    /\ \A i \in 1..(Len(pre) - arg[1]) :
         ret.val[i] = eDiv(eSub(pre[arg[1] + i], pre[i]), pre[i])
    /\ ts = pre

\* pct_change(1) of [2, 1, 2] is [-0.5, 1.0]
C4_Witness ==
  /\ op = "pct_change"
  /\ arg = <<1>>
  /\ pre = <<F(2), F(1), F(2)>>
  /\ ret = Series(<<<<0 - 1, 2>>, F(1)>>)

\* C5: diff(offset) and pct_change(offset) panic in the range index when
\* offset > n, and return the empty series when offset = n.
C5_OffsetBounds ==
  op \in {"diff", "pct_change"} =>
    /\ arg[1] > Len(pre) => IsSliceFault(ret)
    /\ arg[1] = Len(pre) => ret = Series(<<>>)

\* pct_change with an offset one past the length of a two-element series
C5_Witness ==
  /\ op = "pct_change"
  /\ Len(pre) = 2
  /\ arg = <<3>>
  /\ IsSliceFault(ret)

\* C6: slice(start, end) with start <= end <= len is a new series of length
\* end - start whose element i is s[start + i], and s is unchanged; with
\* end > len or start > end it panics.
C6_Slice ==
  op = "slice" =>
    LET start == arg[1]
        end == arg[2]
    IN  IF start <= end /\ end <= Len(pre)
        THEN /\ ret.kind = "TimeSeries"
             /\ Len(ret.val) = end - start
             /\ \A i \in 1..(end - start) : ret.val[i] = pre[start + i]
             /\ ts = pre
        ELSE IsSliceFault(ret)

\* slice(1, 3) of a three-element series whose last two elements differ
C6_Witness ==
  /\ op = "slice"
  /\ arg = <<1, 3>>
  /\ Len(pre) = 3 /\ pre[2] # pre[3]
  /\ ret = Series(<<pre[2], pre[3]>>)

ErrPositions(s) == {k \in 1..Len(s) : s[k].kind = "Err"}

Lowest(S) == CHOOSE k \in S : \A j \in S : k <= j

\* C7: unwrap returns Ok of the unwrapped values, same order and length,
\* when every element is Ok; otherwise exactly the error at the lowest error
\* position k, and nothing after k has been taken from the iterator.
C7_Unwrap ==
  op = "unwrap" =>
    IF ErrPositions(rs) = {}
    THEN /\ ret.kind = "Ok"
         /\ Len(ret.val) = Len(rs)
         /\ \A i \in 1..Len(rs) : ret.val[i] = rs[i].val
    ELSE LET k == Lowest(ErrPositions(rs))
         IN  /\ ret = Err(rs[k].err)
             /\ iter = SubSeq(rs, k + 1, Len(rs))

\* an Ok followed by two different errors
C7_Witness ==
  /\ op = "unwrap"
  /\ Len(rs) = 3
  /\ rs[1].kind = "Ok" /\ rs[2].kind = "Err" /\ rs[3].kind = "Err"
  /\ rs[2].err # rs[3].err
  /\ ret = Err(rs[2].err)

\* C8: reverse returns a new series r of the same length with
\* r[i] = s[len - 1 - i], leaves s as it is, and reversing r gives s back.
C8_Reverse ==
  op = "reverse" =>
    /\ ret.kind = "TimeSeries"
    /\ Len(ret.val) = Len(pre)
    /\ \A i \in 1..Len(pre) : ret.val[i] = pre[Len(pre) + 1 - i]
    /\ ts = pre
    /\ reverse(ret.val) = pre

\* the reverse of a three-element series whose ends differ
C8_Witness ==
  /\ op = "reverse"
  /\ Len(pre) = 3 /\ pre[1] # pre[3]
  /\ ret = Series(<<pre[3], pre[2], pre[1]>>)

\* C9: first, last and get never panic and never change the series; get(index)
\* is the element at index when index < len and None otherwise; first is
\* get(0) and last is get(len - 1) on a non-empty series, and each is None
\* exactly on the empty one.
C9_Queries ==
  /\ op \in {"first", "last", "get"} => (ts = pre /\ ret.kind \in {"Some", "None"})
  /\ op = "get" =>
       IF arg[1] < Len(pre) THEN ret = Some(pre[arg[1] + 1]) ELSE ret = None
  /\ op = "first" =>
       /\ pre # <<>> => ret = get(pre, 0)
       /\ ret = None <=> pre = <<>>
  /\ op = "last" =>
       /\ pre # <<>> => ret = get(pre, Len(pre) - 1)
       /\ ret = None <=> pre = <<>>

\* last on a full series whose ends differ
C9_Witness ==
  /\ op = "last"
  /\ Len(pre) = 3 /\ pre[1] # pre[3]
  /\ ret = Some(pre[3])
  /\ ts = pre

Kept(s, f) == {i \in 1..Len(s) : s[i] \in f}

\* C10: filter(p) is a new series holding exactly the elements of s that p
\* accepts, each as often as in s and in their order in s; it is no longer
\* than s, and s is unchanged.
C10_Filter ==
  op = "filter" =>
    LET kept == Kept(pre, arg)
    IN  /\ ret.kind = "TimeSeries"
        /\ Len(ret.val) = Cardinality(kept)
        /\ \A i \in kept : ret.val[Cardinality({k \in kept : k <= i})] = pre[i]
        /\ Len(ret.val) <= Len(pre)
        /\ ts = pre

\* a filter that drops the middle element of three and keeps two different ones
C10_Witness ==
  /\ op = "filter"
  /\ Len(pre) = 3
  /\ pre[1] \in arg /\ pre[2] \notin arg /\ pre[3] \in arg
  /\ pre[1] # pre[3]
  /\ ret = Series(<<pre[1], pre[3]>>)

====
